---- MODULE Spec2Model ----
(***************************************************************************)
(* Stream extensions of the byteorder crate (src/src/new.rs):              *)
(* ReadBytesExt, read_full and WriteBytesExt.                              *)
(*                                                                         *)
(* Representation.  A byte is a number in 0..255.  TLC's integers are 32   *)
(* bits wide, so a numeric value of the program is kept as its bit pattern *)
(* cut into 16-bit limbs, least significant limb first: one limb for the 8 *)
(* and 16 bit types, two for the 32 bit types, four for the 64 bit types.  *)
(* A value is the record [ty, bits]; a cast between the signed and the     *)
(* unsigned type of one width keeps bits and changes ty.  The ByteOrder    *)
(* trait itself (use ByteOrder, line 3) is not part of new.rs; its         *)
(* operators below follow section 4.1 of the specification.                *)
(*                                                                         *)
(* The float operations (read_f32 .. write_f64) have the shape of the      *)
(* 32 and 64 bit integer operations and are not modelled.                  *)
(***************************************************************************)
EXTENDS Integers, Sequences, FiniteSets, TLC

VARIABLES
    src,    \* the bytes held by the reader (a Cursor's vector)
    pos,    \* the reader's position: bytes of src already delivered
    pc,     \* "idle" | "fill" (inside read_full's loop) | "done" (call returned)
    op,     \* the read operation in progress or last returned
    buf,    \* the operation's local buffer
    n,      \* read_full's n
    start,  \* pos when the operation was called
    last,   \* outcome of the latest rdr.read() call of this operation
    ret,    \* what the operation returned
    hist,   \* the values a client collected from successive reads
    sink,   \* the bytes held by the writer
    wop,    \* the latest write operation and its argument
    wcalls, \* the write_all calls that operation made: argument and result
    wret,   \* what the latest write operation returned
    wlog    \* the successful write operations so far, in call order

vars == <<src, pos, pc, op, buf, n, start, last, ret, hist, sink, wop, wcalls, wret, wlog>>

readerVars == <<src, pos, pc, op, buf, n, start, last, ret>>
writerVars == <<sink, wop, wcalls, wret, wlog>>

---------------------------------------------------------------------------
(* Bounds of the model *)

\* Every stream of at most MaxShort bytes over ByteVals is a source.
MaxShort == 2
\* Length of the long sources (at least one 8-byte read plus one byte).
LongLen == 9
\* Number of write operations a client performs.
MaxWrites == 2

ByteVals == {0, 127, 128, 255}

Endians == {"BigEndian", "LittleEndian"}

\* io::ErrorKind of a failing collaborator call.
ErrKinds == {"Interrupted", "Other"}

Min(a, b) == IF a < b THEN a ELSE b

Zeros(len) == [i \in 1..len |-> 0]

---------------------------------------------------------------------------
(* ByteOrder: BigEndian and LittleEndian (specification, section 4.1) *)

\* The byte of significance s (0 = least significant) of the w-byte number
\* held in b[1..w]: byte 0 of the buffer is the most significant for
\* BigEndian and the least significant for LittleEndian.
ByteAt(T, b, w, s) ==
    IF T = "BigEndian" THEN b[w - s] ELSE b[s + 1]

\* The w-byte number in b[1..w] as nl 16-bit limbs, zero-extended.
Pack(T, b, w, nl) ==
    [j \in 1..nl |->
        (IF 2 * (j - 1) < w THEN ByteAt(T, b, w, 2 * (j - 1)) ELSE 0)
        + 256 * (IF 2 * (j - 1) + 1 < w THEN ByteAt(T, b, w, 2 * (j - 1) + 1) ELSE 0)]

\* The byte of significance s of a limb sequence.
LimbByte(bits, s) ==
    IF s % 2 = 0 THEN bits[(s \div 2) + 1] % 256 ELSE bits[(s \div 2) + 1] \div 256

\* The w bytes of a number in the order of T.
Unpack(T, bits, w) ==
    [i \in 1..w |-> LimbByte(bits, IF T = "BigEndian" THEN w - i ELSE i - 1)]

Value(ty, bits) == [ty |-> ty, bits |-> bits]

ByteOrder_read_u16(T, b) == Value("u16", Pack(T, b, 2, 1))
ByteOrder_read_i16(T, b) == Value("i16", ByteOrder_read_u16(T, b).bits)
ByteOrder_read_u32(T, b) == Value("u32", Pack(T, b, 4, 2))
ByteOrder_read_i32(T, b) == Value("i32", ByteOrder_read_u32(T, b).bits)
ByteOrder_read_u64(T, b) == Value("u64", Pack(T, b, 8, 4))
ByteOrder_read_i64(T, b) == Value("i64", ByteOrder_read_u64(T, b).bits)

\* The 8-byte scratch area of the variable-width decode: the nbytes bytes of
\* the buffer right-aligned (BigEndian) or left-aligned (LittleEndian).
Scratch(T, b, nbytes) ==
    [i \in 1..8 |->
        IF T = "BigEndian"
        THEN (IF i > 8 - nbytes THEN b[i - (8 - nbytes)] ELSE 0)
        ELSE (IF i <= nbytes THEN b[i] ELSE 0)]

ByteOrder_read_uint(T, b, nbytes) == Value("u64", Pack(T, Scratch(T, b, nbytes), 8, 4))

\* Sign extension from bit nbytes*8 - 1 up to bit 63.
extend_sign(bits, nbytes) ==
    LET neg == LimbByte(bits, nbytes - 1) >= 128
        byte(s) == IF s < nbytes THEN LimbByte(bits, s)
                   ELSE IF neg THEN 255 ELSE 0
    IN  [j \in 1..4 |-> byte(2 * (j - 1)) + 256 * byte(2 * (j - 1) + 1)]

ByteOrder_read_int(T, b, nbytes) ==
    Value("i64", extend_sign(ByteOrder_read_uint(T, b, nbytes).bits, nbytes))

ByteOrder_write_u16(T, v) == Unpack(T, v.bits, 2)
ByteOrder_write_i16(T, v) == ByteOrder_write_u16(T, Value("u16", v.bits))
ByteOrder_write_u32(T, v) == Unpack(T, v.bits, 4)
ByteOrder_write_i32(T, v) == ByteOrder_write_u32(T, Value("u32", v.bits))
ByteOrder_write_u64(T, v) == Unpack(T, v.bits, 8)
ByteOrder_write_i64(T, v) == ByteOrder_write_u64(T, Value("u64", v.bits))

---------------------------------------------------------------------------
(* The byte-stream source: io::Read *)

NoRead == [kind |-> "none", k |-> 0, err |-> "-"]

\* What one call rdr.read(slice) can return for a slice of len bytes: a count
\* of 1..len bytes the source still holds, count 0 at the end of the stream,
\* or an I/O failure.
rdr_read(len) ==
    {[kind |-> "ok", k |-> k, err |-> "-"] : k \in 1..Min(len, Len(src) - pos)}
    \cup (IF pos = Len(src) THEN {[kind |-> "ok", k |-> 0, err |-> "-"]} ELSE {})
    \cup {[kind |-> "err", k |-> 0, err |-> e] : e \in ErrKinds}

---------------------------------------------------------------------------
(* ReadBytesExt *)

ReadOp(name, T, nbytes) == [name |-> name, T |-> T, nbytes |-> nbytes]

NoOp == ReadOp("-", "-", 0)

NoRet == [tag |-> "None", val |-> Value("-", <<>>), err |-> "-"]
Ok(v) == [tag |-> "Ok", val |-> v, err |-> "-"]
Err(e) == [tag |-> "Err", val |-> Value("-", <<>>), err |-> e]

\* let mut buf = [0; len]; then read_full is entered with n = 0.
Enter(o, len) ==
    /\ pc \in {"idle", "done"}
    /\ pc' = "fill"
    /\ op' = o
    /\ buf' = Zeros(len)
    /\ n' = 0
    /\ start' = pos
    /\ last' = NoRead
    /\ ret' = NoRet
    /\ UNCHANGED <<src, pos>>

read_u8 == Enter(ReadOp("read_u8", "-", 1), 1)
read_i8 == Enter(ReadOp("read_i8", "-", 1), 1)
read_u16(T) == Enter(ReadOp("read_u16", T, 2), 2)
read_i16(T) == Enter(ReadOp("read_i16", T, 2), 2)
read_u32(T) == Enter(ReadOp("read_u32", T, 4), 4)
read_i32(T) == Enter(ReadOp("read_i32", T, 4), 4)
read_u64(T) == Enter(ReadOp("read_u64", T, 8), 8)
read_i64(T) == Enter(ReadOp("read_i64", T, 8), 8)
read_uint(T, nbytes) == Enter(ReadOp("read_uint", T, nbytes), 8)
read_int(T, nbytes) == Enter(ReadOp("read_int", T, nbytes), 8)

\* Mutant: read_uint / read_int fill the whole 8-byte buffer.
FillLen_WholeBuffer(o) == IF o.name \in {"read_uint", "read_int"} THEN 8 ELSE o.nbytes

\* The slice handed to read_full: the whole buffer, or &mut buf[0..nbytes].
FillLen(o) == o.nbytes

\* Mutant: every read() call is handed the whole buffer, &mut buf[..].
Request_WholeBuffer(len, m) == len

\* The slice handed to rdr.read: &mut buf[n..].
Request(len, m) == len - m

\* Mutant: the bytes delivered are stored from offset 0 on.
Store_AtStart(b, m, k) ==
    [i \in DOMAIN b |-> IF i <= k THEN src[pos + i] ELSE b[i]]

\* rdr.read(&mut buf[n..]) stores the k bytes it delivers from offset n on.
Store(b, m, k) ==
    [i \in DOMAIN b |-> IF m < i /\ i <= m + k THEN src[pos + (i - m)] ELSE b[i]]

\* Mutant: read_i32 delegates to ByteOrder::read_i16.
DecodeFixed_CopyPaste(o, b) ==
    CASE o.name = "read_u8"   -> Value("u8", <<b[1]>>)
      [] o.name = "read_i8"   -> Value("i8", <<b[1]>>)
      [] o.name = "read_u16"  -> ByteOrder_read_u16(o.T, b)
      [] o.name = "read_i16"  -> ByteOrder_read_i16(o.T, b)
      [] o.name = "read_u32"  -> ByteOrder_read_u32(o.T, b)
      [] o.name = "read_i32"  -> ByteOrder_read_i16(o.T, b)
      [] o.name = "read_u64"  -> ByteOrder_read_u64(o.T, b)
      [] o.name = "read_i64"  -> ByteOrder_read_i64(o.T, b)

\* The value a fixed-width operation returns once read_full has filled its
\* buffer: Ok(buf[0]), Ok(buf[0] as i8), Ok(<T as ByteOrder>::read_x(&buf)).
DecodeFixed(o, b) ==
    CASE o.name = "read_u8"   -> Value("u8", <<b[1]>>)
      [] o.name = "read_i8"   -> Value("i8", <<b[1]>>)
      [] o.name = "read_u16"  -> ByteOrder_read_u16(o.T, b)
      [] o.name = "read_i16"  -> ByteOrder_read_i16(o.T, b)
      [] o.name = "read_u32"  -> ByteOrder_read_u32(o.T, b)
      [] o.name = "read_i32"  -> ByteOrder_read_i32(o.T, b)
      [] o.name = "read_u64"  -> ByteOrder_read_u64(o.T, b)
      [] o.name = "read_i64"  -> ByteOrder_read_i64(o.T, b)

\* Mutant: read_int delegates to ByteOrder::read_uint and casts.
Decode_IntAsUint(o, b) ==
    IF o.name \in {"read_uint", "read_int"}
    THEN Value(IF o.name = "read_int" THEN "i64" ELSE "u64",
               ByteOrder_read_uint(o.T, b, o.nbytes).bits)
    ELSE DecodeFixed(o, b)

\* The value an operation returns once read_full has filled its buffer.
Decode(o, b) ==
    IF o.name = "read_uint" THEN ByteOrder_read_uint(o.T, b, o.nbytes)
    ELSE IF o.name = "read_int" THEN ByteOrder_read_int(o.T, b, o.nbytes)
    ELSE DecodeFixed(o, b)

\* Mutant: an interrupted read() is retried.
Propagates_RetryInterrupted(r) == r.kind = "err" /\ r.err # "Interrupted"

\* Whether try!(rdr.read(..)) leaves read_full with the failure.
Propagates(r) == r.kind = "err"

\* Mutant: the source is put back where the operation found it.
AfterFailure_Rewind(p, s) == s

\* The source's position once try! has returned the failure, given the
\* position p it has reached and the position s at the call: nothing is undone.
AfterFailure(p, s) == p

\* One iteration of read_full's loop, and the return that follows the last:
\*   while n < buf.len() { n += try!(rdr.read(&mut buf[n..])); }  Ok(())
read_full ==
    /\ pc = "fill"
    /\ n < FillLen(op)
    /\ \E r \in rdr_read(Request(FillLen(op), n)) :
         /\ last' = r
         /\ IF Propagates(r)
            THEN /\ pc' = "done"
                 /\ ret' = Err(r.err)
                 /\ pos' = AfterFailure(pos, start)
                 /\ UNCHANGED <<buf, n>>
            ELSE /\ buf' = Store(buf, n, r.k)
                 /\ n' = n + r.k
                 /\ pos' = pos + r.k
                 /\ IF n' < FillLen(op)
                    THEN pc' = "fill" /\ ret' = ret
                    ELSE pc' = "done" /\ ret' = Ok(Decode(op, buf'))
    /\ UNCHANGED <<src, op, start>>

---------------------------------------------------------------------------
(* The byte-stream sink: io::Write *)

\* io::ErrorKind of a sink rejecting a write.
SinkErrs == {"WriteZero", "Other"}

Unit == Value("()", <<>>)

\* What one call self.write_all(b) can do: accept all of b and return Ok(()),
\* or fail after accepting fewer than Len(b) bytes.
write_all(b) ==
    {[res |-> Ok(Unit), taken |-> Len(b)]}
    \cup {[res |-> Err(e), taken |-> j] : j \in 0..(Len(b) - 1), e \in SinkErrs}

---------------------------------------------------------------------------
(* WriteBytesExt *)

WriteOp(name, T, val) == [name |-> name, T |-> T, val |-> val]

\* The number of bytes of a write operation's buffer.
WWidth(o) ==
    CASE o.name \in {"write_u8", "write_i8"}   -> 1
      [] o.name \in {"write_u16", "write_i16"} -> 2
      [] o.name \in {"write_u32", "write_i32"} -> 4
      [] o.name \in {"write_u64", "write_i64"} -> 8

\* Mutant: write_all is handed the buffer before ByteOrder has written it.
Encode_Unwritten(o) == Zeros(WWidth(o))

\* The buffer an operation hands to write_all: &[n], &[n as u8], or the local
\* buffer after <T as ByteOrder>::write_x(&mut buf, n).
Encode(o) ==
    CASE o.name = "write_u8"  -> <<o.val.bits[1]>>
      [] o.name = "write_i8"  -> <<o.val.bits[1]>>
      [] o.name = "write_u16" -> ByteOrder_write_u16(o.T, o.val)
      [] o.name = "write_i16" -> ByteOrder_write_i16(o.T, o.val)
      [] o.name = "write_u32" -> ByteOrder_write_u32(o.T, o.val)
      [] o.name = "write_i32" -> ByteOrder_write_i32(o.T, o.val)
      [] o.name = "write_u64" -> ByteOrder_write_u64(o.T, o.val)
      [] o.name = "write_i64" -> ByteOrder_write_i64(o.T, o.val)

\* Mutant: the result of write_all is dropped and Ok(()) returned.
WriteResult_Swallowed(r) == Ok(Unit)

\* What the operation returns: the call self.write_all(..) is its tail
\* expression.
WriteResult(r) == r

\* One write operation: a single call of write_all on the encoded buffer.
Write(o) ==
    /\ wret.tag # "Err"
    /\ \E c \in write_all(Encode(o)) :
         /\ sink' = sink \o SubSeq(Encode(o), 1, c.taken)
         /\ wcalls' = <<[arg |-> Encode(o), res |-> c.res]>>
         /\ wret' = WriteResult(c.res)
         /\ wlog' = IF wret'.tag = "Ok" THEN Append(wlog, o) ELSE wlog
    /\ wop' = o

write_u8(v) == Write(WriteOp("write_u8", "-", v))
write_i8(v) == Write(WriteOp("write_i8", "-", v))
write_u16(T, v) == Write(WriteOp("write_u16", T, v))
write_i16(T, v) == Write(WriteOp("write_i16", T, v))
write_u32(T, v) == Write(WriteOp("write_u32", T, v))
write_i32(T, v) == Write(WriteOp("write_i32", T, v))
write_u64(T, v) == Write(WriteOp("write_u64", T, v))
write_i64(T, v) == Write(WriteOp("write_i64", T, v))

---------------------------------------------------------------------------
(* Sources *)

ShortStreams == UNION {[1..len -> ByteVals] : len \in 0..MaxShort}

\* Cursor::new(vec![2, 5, 3, 0]) of the documentation example.
DocStream == <<2, 5, 3, 0>>

Ramp(a, d, len) == [i \in 1..len |-> (a + (i - 1) * d) % 256]

LongStreams == {Ramp(a, d, LongLen) : a \in {1, 128, 250}, d \in {1, 37}}

Streams == ShortStreams \cup {DocStream} \cup LongStreams

NoWrite == [name |-> "-", T |-> "-", val |-> Value("-", <<>>)]

InitReader ==
    /\ pos = 0
    /\ pc = "idle"
    /\ op = NoOp
    /\ buf = <<>>
    /\ n = 0
    /\ start = 0
    /\ last = NoRead
    /\ ret = NoRet

InitWriter ==
    /\ sink = <<>>
    /\ wop = NoWrite
    /\ wcalls = <<>>
    /\ wret = NoRet
    /\ wlog = <<>>

---------------------------------------------------------------------------
(* A client reading numbers of any kind from a source *)

Init ==
    /\ src \in Streams
    /\ InitReader
    /\ InitWriter
    /\ hist = <<>>

Call ==
    \/ read_u8
    \/ read_i8
    \/ \E T \in Endians : read_u16(T)
    \/ \E T \in Endians : read_i16(T)
    \/ \E T \in Endians : read_u32(T)
    \/ \E T \in Endians : read_i32(T)
    \/ \E T \in Endians : read_u64(T)
    \/ \E T \in Endians : read_i64(T)
    \/ \E T \in Endians, nbytes \in 1..8 : read_uint(T, nbytes)
    \/ \E T \in Endians, nbytes \in 1..8 : read_int(T, nbytes)

Next ==
    \/ Call /\ UNCHANGED <<hist, writerVars>>
    \/ read_full /\ UNCHANGED <<hist, writerVars>>

Spec == Init /\ [][Next]_vars

---------------------------------------------------------------------------
(* A client reading successive numbers of one kind, as the documentation
   example of ReadBytesExt does: each result is unwrapped and kept. *)

SeqCall ==
    /\ pc = "idle" \/ (pc = "done" /\ ret.tag = "Ok")
    /\ Call
    /\ pc = "done" => op' = op

Collect ==
    hist' = IF pc' = "done" /\ ret'.tag = "Ok" THEN Append(hist, ret'.val) ELSE hist

SeqNext ==
    \/ SeqCall /\ UNCHANGED <<hist, writerVars>>
    \/ read_full /\ Collect /\ UNCHANGED writerVars

SeqSpec == Init /\ [][SeqNext]_vars

---------------------------------------------------------------------------
(* A client writing numbers to a sink, unwrapping each result *)

\* Sample values of each type.
Vals8 == {<<5>>, <<255>>}
Vals16 == {<<517>>, <<768>>, <<32768>>}
Vals32 == {<<772, 258>>, <<65151, 33023>>}
Vals64 == {<<1800, 1286, 772, 258>>, <<1, 0, 65535, 32768>>}

WriteCall(V8, V16, V32, V64) ==
    \/ \E b \in V8 : write_u8(Value("u8", b))
    \/ \E b \in V8 : write_i8(Value("i8", b))
    \/ \E T \in Endians, b \in V16 : write_u16(T, Value("u16", b))
    \/ \E T \in Endians, b \in V16 : write_i16(T, Value("i16", b))
    \/ \E T \in Endians, b \in V32 : write_u32(T, Value("u32", b))
    \/ \E T \in Endians, b \in V32 : write_i32(T, Value("i32", b))
    \/ \E T \in Endians, b \in V64 : write_u64(T, Value("u64", b))
    \/ \E T \in Endians, b \in V64 : write_i64(T, Value("i64", b))

WriteInit ==
    /\ src = <<>>
    /\ InitReader
    /\ InitWriter
    /\ hist = <<>>

WriteNext ==
    /\ Len(wlog) < MaxWrites
    /\ WriteCall(Vals8, Vals16, Vals32, Vals64)
    /\ UNCHANGED <<readerVars, hist>>

WriteSpec == WriteInit /\ [][WriteNext]_vars

---------------------------------------------------------------------------
(* A client writing one number and reading it back from the bytes written *)

Limbs == {0, 517, 32768, 65535}

All8 == {<<b>> : b \in ByteVals}
All16 == {<<lo + 256 * hi>> : lo \in ByteVals \cup {2, 5}, hi \in ByteVals \cup {2, 5}}
All32 == {<<a, b>> : a \in Limbs, b \in Limbs}
All64 == {<<a, b, c, d>> : a \in Limbs, b \in Limbs, c \in Limbs, d \in Limbs}

\* let mut rdr = Cursor::new(wtr);
Reopen ==
    /\ wret.tag = "Ok"
    /\ pc = "idle"
    /\ src = <<>>
    /\ src' = sink
    /\ pos' = 0
    /\ UNCHANGED <<pc, op, buf, n, start, last, ret>>

\* The read operation of the type a write operation writes.
ReadOf(name) ==
    CASE name = "write_u8"  -> "read_u8"
      [] name = "write_i8"  -> "read_i8"
      [] name = "write_u16" -> "read_u16"
      [] name = "write_i16" -> "read_i16"
      [] name = "write_u32" -> "read_u32"
      [] name = "write_i32" -> "read_i32"
      [] name = "write_u64" -> "read_u64"
      [] name = "write_i64" -> "read_i64"

\* The read operation of the type and byte order just written.
ReadBack ==
    /\ src # <<>>
    /\ pc = "idle"
    /\ Call
    /\ op'.T = wop.T
    /\ op'.nbytes = WWidth(wop)
    /\ op'.name = ReadOf(wop.name)

RoundTripNext ==
    \/ wop = NoWrite /\ WriteCall(All8, All16, All32, All64) /\ UNCHANGED <<readerVars, hist>>
    \/ Reopen /\ UNCHANGED <<hist, writerVars>>
    \/ ReadBack /\ UNCHANGED <<hist, writerVars>>
    \/ read_full /\ UNCHANGED <<hist, writerVars>>

RoundTripSpec == WriteInit /\ [][RoundTripNext]_vars

---------------------------------------------------------------------------
(* Reference arithmetic for the properties *)

\* The operations with a byte order (all but read_u8 and read_i8).
MultiByte(o) == o.name \notin {"-", "read_u8", "read_i8"}

VarWidth(o) == o.name \in {"read_uint", "read_int"}

Returned == pc = "done" /\ ret.tag = "Ok"
Failed == pc = "done" /\ ret.tag = "Err"

\* The w stream bytes that follow position at.
StreamBytes(at, w) == SubSeq(src, at + 1, at + w)

\* The buffer of operation o after a single read() call delivered all the
\* bytes it asked for, the source being at position at.
OneShot(o, at) ==
    [i \in 1..(IF VarWidth(o) THEN 8 ELSE o.nbytes) |->
        IF i <= o.nbytes THEN src[at + i] ELSE 0]

\* The number a byte sequence denotes, most significant byte first
\* (Horner's rule); fits TLC's integers up to three bytes.
RECURSIVE NatBE(_)
NatBE(b) == IF b = <<>> THEN 0 ELSE 256 * NatBE(SubSeq(b, 1, Len(b) - 1)) + b[Len(b)]

RECURSIVE NatLE(_)
NatLE(b) == IF b = <<>> THEN 0 ELSE b[1] + 256 * NatLE(Tail(b))

NatOfBytes(T, b) == IF T = "BigEndian" THEN NatBE(b) ELSE NatLE(b)

\* 256 * x + b modulo 2^64 on four 16-bit limbs.
MulAdd256(x, b) ==
    [j \in 1..4 |-> (x[j] % 256) * 256 + (IF j = 1 THEN b ELSE x[j - 1] \div 256)]

RECURSIVE LimbsBE(_)
LimbsBE(b) ==
    IF b = <<>> THEN <<0, 0, 0, 0>>
    ELSE MulAdd256(LimbsBE(SubSeq(b, 1, Len(b) - 1)), b[Len(b)])

RECURSIVE Reverse(_)
Reverse(b) == IF b = <<>> THEN <<>> ELSE Append(Reverse(Tail(b)), b[1])

\* The unsigned number a byte sequence denotes in byte order T, as limbs.
LimbsOfBytes(T, b) == IF T = "BigEndian" THEN LimbsBE(b) ELSE LimbsBE(Reverse(b))

\* x + y modulo 2^64 on four 16-bit limbs.
Add64(x, y) ==
    LET s1 == x[1] + y[1]
        s2 == x[2] + y[2] + (s1 \div 65536)
        s3 == x[3] + y[3] + (s2 \div 65536)
        s4 == x[4] + y[4] + (s3 \div 65536)
    IN  <<s1 % 65536, s2 % 65536, s3 % 65536, s4 % 65536>>

\* 2^(8*k) modulo 2^64 as limbs.
Pow256(k) ==
    [j \in 1..4 |-> IF k < 8 /\ j = (k \div 2) + 1
                    THEN (IF k % 2 = 0 THEN 1 ELSE 256) ELSE 0]

\* The integer a 64-bit two's complement pattern denotes, for |value| < 2^31.
I64(bits) ==
    IF bits[4] >= 32768
    THEN 0 - ((65535 - bits[1]) + 65536 * (65535 - bits[2]) + 1)
    ELSE bits[1] + 65536 * bits[2]

\* 2^(8*k) as an integer, k <= 3.
Pow256Int(k) == IF k = 0 THEN 1 ELSE IF k = 1 THEN 256 ELSE IF k = 2 THEN 65536 ELSE 16777216

---------------------------------------------------------------------------
(* Properties of the read operations *)

\* C1: short-read tolerance.  Whatever way the source splits its bytes over
\* successive read() calls, a multi-byte read operation that returns a value
\* returns the value of the first `width` stream bytes in stream order: the
\* value a single read() call delivering them all gives, which for widths up
\* to three bytes is the number those bytes denote in the byte order; and
\* once all `width` bytes have been delivered the operation has returned one.
C1_ShortReadTolerance ==
    /\ (pc = "fill" /\ MultiByte(op)) => n < FillLen(op)
    /\ (pc = "done" /\ MultiByte(op) /\ pos = start + FillLen(op)) => Returned
    /\ (Returned /\ MultiByte(op)) =>
        /\ ret.val = Decode(op, OneShot(op, start))
        /\ (op.nbytes <= 3 /\ op.name \in {"read_u16", "read_uint"}) =>
              I64(ret.val.bits \o <<0, 0, 0>>) = NatOfBytes(op.T, StreamBytes(start, op.nbytes))

\* C1 witness: an 8-byte read whose last read() call delivered a single byte.
C1_Witness ==
    /\ Returned
    /\ op.name = "read_u64"
    /\ last.k = 1
    /\ ret.val = Decode(op, OneShot(op, start))

\* C2: a failure of read() while the buffer is not full is what the operation
\* returns (an interrupted one too), it returns no value, and the operation
\* makes no further read() call: the source and the record of the latest
\* read() stay as they are until another operation is called.
C2_ErrorPropagates ==
    [][ /\ (last'.kind = "err" => (pc' = "done" /\ ret' = Err(last'.err) /\ n' < FillLen(op')))
        /\ (last.kind = "err" => (pos' = pos /\ (last' = last \/ (last' = NoRead /\ n' = 0))))
      ]_vars

\* C2 witness: an interrupted read() after some bytes were delivered.
C2_Witness ==
    /\ Failed
    /\ last.kind = "err"
    /\ last.err = "Interrupted"
    /\ ret = Err("Interrupted")
    /\ 0 < n /\ n < FillLen(op)

\* C3 (as claimed): a read() returning count 0 before the buffer is full ends
\* the operation with an I/O failure instead of another request.
C3_EofEndsWithFailure ==
    (last.kind = "ok" /\ last.k = 0) => (pc = "done" /\ ret.tag = "Err")

\* C7 (as claimed): read_uint / read_int hand ByteOrder an 8-byte buffer whose
\* nbytes stream bytes sit in the trailing positions for BigEndian and in the
\* leading positions for LittleEndian, zero elsewhere.
C7_Original ==
    (Returned /\ VarWidth(op)) =>
        /\ pos = start + op.nbytes
        /\ buf = (IF op.T = "BigEndian"
                  THEN Zeros(8 - op.nbytes) \o StreamBytes(start, op.nbytes)
                  ELSE StreamBytes(start, op.nbytes) \o Zeros(8 - op.nbytes))

\* C7 (amended): read_uint / read_int read exactly nbytes bytes into a zeroed
\* 8-byte buffer, and for both byte orders these occupy the leading
\* positions [0, nbytes); all other positions are zero when the buffer is
\* handed to the ByteOrder decode.
C7_LeadingPositions ==
    (Returned /\ VarWidth(op)) =>
        /\ pos = start + op.nbytes
        /\ buf = StreamBytes(start, op.nbytes) \o Zeros(8 - op.nbytes)

\* C7 witness: a BigEndian three-byte read with non-zero bytes.
C7_Witness ==
    /\ Returned
    /\ op = ReadOp("read_uint", "BigEndian", 3)
    /\ buf[1] # 0 /\ buf[3] # 0
    /\ buf[8] = 0

\* C8: with u the unsigned number the first nbytes stream bytes denote in the
\* byte order, read_uint returns u, and read_int returns u when
\* u < 2^(8*nbytes-1) and u - 2^(8*nbytes) otherwise: the returned 64-bit
\* pattern r is negative and r + 2^(8*nbytes) = u modulo 2^64.  For nbytes <= 3
\* the same is stated on integers.  read_int::<BigEndian>(1) on [0xFF] is -1
\* and read_uint::<BigEndian>(1) is 255.
C8_SignExtension ==
    (Returned /\ VarWidth(op)) =>
        LET bytes == StreamBytes(start, op.nbytes)
            u == LimbsOfBytes(op.T, bytes)
            r == ret.val.bits
            small == LimbByte(u, op.nbytes - 1) < 128
        IN  /\ op.name = "read_uint" => r = u
            /\ (op.name = "read_int" /\ small) => r = u
            /\ (op.name = "read_int" /\ ~small) =>
                  (r[4] >= 32768 /\ Add64(r, Pow256(op.nbytes)) = u)
            /\ op.nbytes <= 3 =>
                  LET ui == NatOfBytes(op.T, bytes)
                  IN  I64(r) = IF op.name = "read_uint" \/ 2 * ui < Pow256Int(op.nbytes)
                               THEN ui ELSE ui - Pow256Int(op.nbytes)
            /\ (op.nbytes = 1 /\ bytes = <<255>>) =>
                  I64(r) = IF op.name = "read_int" THEN 0 - 1 ELSE 255

\* C8 witness: read_int::<BigEndian>(1) on the byte 0xFF returned -1.
C8_Witness ==
    /\ Returned
    /\ op = ReadOp("read_int", "BigEndian", 1)
    /\ StreamBytes(start, 1) = <<255>>
    /\ ret.val = Value("i64", <<65535, 65535, 65535, 65535>>)

\* C10: a failed read does not restore the source.  When the operation fails
\* after k bytes were delivered the source stays k bytes past the position at
\* the call, and the next operation starts from there.
C10_FailureKeepsBytesConsumed ==
    [][ /\ (pc = "fill" /\ pc' = "done" /\ ret'.tag = "Err") => (pos' = start + n /\ n' = n)
        /\ (Failed /\ pc' = "fill") => (start' = start + n /\ pos' = start')
      ]_vars

\* C10 witness: a failure after some, not all, bytes; the source has moved.
C10_Witness ==
    /\ Failed
    /\ 0 < n /\ n < FillLen(op)
    /\ pos = start + n
    /\ pos # start

---------------------------------------------------------------------------
(* Properties of successive reads *)

U16BE == ReadOp("read_u16", "BigEndian", 2)

\* C4: successive reads consume consecutive, non-overlapping bytes.  No
\* read() call delivers more than the bytes still missing, so an operation
\* of width w never moves the source by more than w bytes and a successful
\* one moves it by exactly w; the i-th of a sequence of successful reads
\* returns the value of stream bytes [(i-1)*w, i*w), which for
\* read_u16::<BigEndian> is 256 * first + second; on the stream [2,5,3,0]
\* two such reads return 517 and then 768.
C4_ConsecutiveReads ==
    /\ pc # "idle" => (pos - start = n /\ n <= FillLen(op))
    /\ last.kind = "ok" => last.k <= FillLen(op) - (n - last.k)
    /\ (pc = "done" /\ ret.tag = "Ok") => pos = op.nbytes * Len(hist)
    /\ \A i \in 1..Len(hist) :
          /\ hist[i] = Decode(op, OneShot(op, (i - 1) * op.nbytes))
          /\ op = U16BE => hist[i].bits = <<256 * src[2 * i - 1] + src[2 * i]>>
    /\ (src = DocStream /\ op = U16BE /\ Len(hist) = 2) =>
          (hist[1].bits = <<517>> /\ hist[2].bits = <<768>>)

\* C4 witness: the documentation example, both reads done.
C4_Witness ==
    /\ src = DocStream
    /\ op = U16BE
    /\ hist = <<Value("u16", <<517>>), Value("u16", <<768>>)>>
    /\ pos = 4

---------------------------------------------------------------------------
(* Properties of the write operations *)

\* Limbs zero-extended to 64 bits.
Ext(bits) == [j \in 1..4 |-> IF j <= Len(bits) THEN bits[j] ELSE 0]

\* The number of bytes the operations of a log write.
RECURSIVE Total(_)
Total(log) == IF log = <<>> THEN 0 ELSE WWidth(log[1]) + Total(Tail(log))

\* The bytes of the sink that the i-th logged operation wrote.
Chunk(i) ==
    LET off == Total(SubSeq(wlog, 1, i - 1))
    IN  SubSeq(sink, off + 1, off + WWidth(wlog[i]))

DocWrites ==
    << WriteOp("write_u16", "BigEndian", Value("u16", <<517>>)),
       WriteOp("write_u16", "BigEndian", Value("u16", <<768>>)) >>

\* C5: every write operation makes exactly one write_all call, on a buffer
\* of exactly `width` bytes that denotes the value written in the byte
\* order; after any sequence of successful writes the sink is the
\* concatenation of these buffers in call order.  write_u16::<BigEndian>(517)
\* then write_u16::<BigEndian>(768) leave an empty sink equal to [2,5,3,0].
C5_WritesInCallOrder ==
    /\ wop # NoWrite =>
          /\ Len(wcalls) = 1
          /\ Len(wcalls[1].arg) = WWidth(wop)
          /\ LimbsOfBytes(wop.T, wcalls[1].arg) = Ext(wop.val.bits)
    /\ wret.tag # "Err" =>
          /\ Len(sink) = Total(wlog)
          /\ \A i \in 1..Len(wlog) :
                LimbsOfBytes(wlog[i].T, Chunk(i)) = Ext(wlog[i].val.bits)
          /\ wlog = DocWrites => sink = <<2, 5, 3, 0>>

\* C5 witness: the documentation example of WriteBytesExt, both writes done.
C5_Witness ==
    /\ wlog = DocWrites
    /\ wret.tag = "Ok"
    /\ sink = <<2, 5, 3, 0>>

\* C9: a write operation returns what its single write_all call returned: the
\* sink's failure when it rejects the write, and success only when write_all
\* accepted the whole `width`-byte buffer.
C9_WriteFailurePropagates ==
    wop # NoWrite =>
        /\ Len(wcalls) = 1
        /\ wret = wcalls[1].res
        /\ wret.tag = "Ok" =>
              /\ Len(wcalls[1].arg) = WWidth(wop)
              /\ Len(sink) = Total(wlog)
              /\ SubSeq(sink, Len(sink) - WWidth(wop) + 1, Len(sink)) = wcalls[1].arg
        /\ wret.tag = "Err" =>
              /\ wret.err \in SinkErrs
              /\ Len(sink) < Total(wlog) + WWidth(wop)

\* C9 witness: the second write was rejected after part of its buffer.
C9_Witness ==
    /\ wret = Err("WriteZero")
    /\ wcalls[1].res = Err("WriteZero")
    /\ Len(wlog) = 1
    /\ Len(sink) > Total(wlog)

---------------------------------------------------------------------------
(* Round trip *)

\* C6: writing v with write_X::<T> into an empty sink and reading the bytes
\* written with read_X::<T> returns v, type and bits, however the source
\* splits the bytes over read() calls.
C6_RoundTrip ==
    (Returned /\ wop # NoWrite) => ret.val = wop.val

\* C6 witness: a negative i64 written and read back LittleEndian, the last
\* read() call delivering one byte.
C6_Witness ==
    /\ Returned
    /\ wop.name = "write_i64"
    /\ op = ReadOp("read_i64", "LittleEndian", 8)
    /\ wop.val.bits[4] >= 32768
    /\ last.k = 1
    /\ ret.val = wop.val

====
